---------------------------- MODULE Spec2Model ----------------------------
(***************************************************************************)
(* The tool facade of the reverse engineering assistant                    *)
(* (api_server_tools/function_tools.py) and the request/response bridge it *)
(* talks to (assistant_api_server: RevaCallbackHandler, to_send_to_tool).  *)
(*                                                                         *)
(* Every caller thread runs one facade operation.  The operation checks    *)
(* its arguments, builds a request message, wraps it in a fresh            *)
(* RevaCallbackHandler, puts the handler on the queue to_send_to_tool and  *)
(* blocks in wait().  The transport worker takes handlers from the queue,  *)
(* sends the request to the analysis backend and resolves the handler with *)
(* the backend's reply; replies may come back in any order.                *)
(*                                                                         *)
(* Encoding.  None is <<>> and a present optional value v is <<v>>.        *)
(* A Python string that is parsed (a function name or address, a page      *)
(* number) is a sequence of one-character strings; a string that is only   *)
(* copied or tested for emptiness is a TLA+ string.  A dynamically typed   *)
(* argument is [t |-> "str", s |-> chars] or [t |-> "int", n |-> number].  *)
(***************************************************************************)
EXTENDS Integers, Sequences, FiniteSets, TLC, Bags

(***************************************************************************)
(* Bounds of the model.                                                    *)
(***************************************************************************)
\* Number of caller threads, each running one facade operation.
NumCallers == 2
\* How many times the transport may try to resolve an already resolved handler.
MaxSecondResolves == 1

Callers == 1..NumCallers

None == <<>>
Some(v) == <<v>>
StrArg(chars) == [t |-> "str", s |-> chars]
IntArg(n) == [t |-> "int", n |-> n]

(***************************************************************************)
(* Python's int(text, base) on the characters the model uses: an optional  *)
(* sign, an optional 0x prefix when the base is 16, then at least one      *)
(* digit of the base.  (Whitespace and underscores are not in the model's  *)
(* alphabet.)  The result is [ok |-> TRUE, value |-> n], or ok = FALSE     *)
(* where Python raises ValueError.                                         *)
(***************************************************************************)
DigitChars == <<"0", "1", "2", "3", "4", "5", "6", "7", "8", "9",
                "a", "b", "c", "d", "e", "f">>

IsDigit(ch, base) == \E i \in 1..base : DigitChars[i] = ch

DigitValue(ch) == (CHOOSE i \in 1..16 : DigitChars[i] = ch) - 1

RECURSIVE DigitsValue(_, _, _)
DigitsValue(chars, base, acc) ==
    IF chars = <<>> THEN acc
    ELSE DigitsValue(Tail(chars), base, acc * base + DigitValue(Head(chars)))

ParseInt(chars, base) ==
    LET negative == chars # <<>> /\ Head(chars) = "-"
        unsigned == IF chars # <<>> /\ Head(chars) \in {"-", "+"} THEN Tail(chars) ELSE chars
        prefixed == /\ base = 16
                    /\ Len(unsigned) >= 2
                    /\ unsigned[1] = "0"
                    /\ unsigned[2] \in {"x", "X"}
        digits   == IF prefixed THEN Tail(Tail(unsigned)) ELSE unsigned
    IN  IF digits # <<>> /\ \A i \in 1..Len(digits) : IsDigit(digits[i], base)
        THEN [ok |-> TRUE,
              value |-> IF negative THEN 0 - DigitsValue(digits, base, 0)
                        ELSE DigitsValue(digits, base, 0)]
        ELSE [ok |-> FALSE, value |-> 0]

(***************************************************************************)
(* Python's hex(n) for n >= 0: "0x" followed by the base-16 digits.        *)
(***************************************************************************)
RECURSIVE HexDigits(_)
HexDigits(n) ==
    IF n < 16 THEN <<DigitChars[n + 1]>>
    ELSE HexDigits(n \div 16) \o <<DigitChars[(n % 16) + 1]>>

Hex(n) == <<"0", "x">> \o HexDigits(n)

(***************************************************************************)
(* Messages of tool_protocol, as function_tools.py builds and reads them.  *)
(***************************************************************************)
RevaGetDecompilation(address, function) ==
    [kind |-> "RevaGetDecompilation", address |-> address, function |-> function]

RevaGetDefinedFunctionList(page, page_size) ==
    [kind |-> "RevaGetDefinedFunctionList", page |-> page, page_size |-> page_size]

RevaGetFunctionCount == [kind |-> "RevaGetFunctionCount"]

RevaRenameVariable(variable, new_name, function_name) ==
    [kind |-> "RevaRenameVariable", variable |-> variable,
     new_name |-> new_name, function_name |-> function_name]

RevaGetReferences(address_or_symbol) ==
    [kind |-> "RevaGetReferences", address_or_symbol |-> address_or_symbol]

ResponseKinds == {"RevaGetDecompilationResponse", "RevaGetDefinedFunctionListResponse",
                  "RevaGetFunctionCountResponse", "RevaRenameVariableResponse",
                  "RevaGetReferencesResponse"}

\* The response kind that mirrors a request kind.
MatchingKind(request_kind) == request_kind \o "Response"

\* A response kind that does not mirror the request kind.  The facade treats
\* every wrong kind alike (one isinstance test), so one stands for all.
MismatchedKind(request_kind) ==
    CASE request_kind = "RevaGetDecompilation" -> "RevaGetFunctionCountResponse"
      [] request_kind = "RevaGetDefinedFunctionList" -> "RevaGetDecompilationResponse"
      [] request_kind = "RevaGetFunctionCount" -> "RevaGetReferencesResponse"
      [] request_kind = "RevaRenameVariable" -> "RevaGetDefinedFunctionListResponse"
      [] OTHER -> "RevaRenameVariableResponse"

\* The kinds of reply the backend may send to a request.
ReplyKinds(request_kind) == {MatchingKind(request_kind), MismatchedKind(request_kind)}

\* What the backend may put in error_message: nothing, an empty text, a text.
ErrorMessages == {None, Some(""), Some("function not found")}

\* The payload fields function_tools.py reads from a response of each kind.
Payload(kind) ==
    CASE kind = "RevaGetDecompilationResponse" ->
            [function |-> "main", function_signature |-> "int main(void)",
             address |-> 173, decompilation |-> "return 0;", variables |-> <<"local_8">>]
      [] kind = "RevaGetDefinedFunctionListResponse" ->
            [function_list |-> <<"main", "entry">>]
      [] kind = "RevaGetFunctionCountResponse" -> [function_count |-> 2]
      [] kind = "RevaGetReferencesResponse" ->
            [references_to |-> <<"entry">>, references_from |-> <<>>]
      [] OTHER -> [renamed |-> TRUE]

\* A response message; answers is the handler whose request the backend answered.
Response(kind, error_message, answers) ==
    [kind |-> kind, error_message |-> error_message,
     payload |-> Payload(kind), answers |-> answers]

\* Python's truth value of response.error_message: set and not empty.
Truthy(error_message) == error_message # None /\ error_message[1] # ""

(***************************************************************************)
(* What a call ends with: an exception raised, or a value returned.        *)
(***************************************************************************)
NoOutcome == [status |-> "none", exc |-> "", msg |-> "", value |-> None]
Raised(exc, msg) == [status |-> "raised", exc |-> exc, msg |-> msg, value |-> None]
Returned(value) == [status |-> "returned", exc |-> "", msg |-> "", value |-> Some(value)]

(***************************************************************************)
(* Arguments the callers pass.                                             *)
(***************************************************************************)
\* function_name_or_address: a name, a hex address, zero, a negative number,
\* the empty string, and an integer instead of a string.
DecompilationArgs == {StrArg(<<"g">>), StrArg(<<"a", "d">>), StrArg(<<"0">>),
                      StrArg(<<"-", "1">>), StrArg(<<>>), IntArg(16)}
PageArgs == {IntArg(0), IntArg(1), StrArg(<<"0">>)}
PageSizeArgs == {IntArg(20), StrArg(<<"5">>)}
\* Names that are only copied into the request: an empty and a non-empty one.
RenameArgs == {<<"b", "a", "F">>, <<"", "a", "F">>, <<"b", "", "F">>, <<"b", "a", "">>}
ReferenceArgs == {"", "sym"}

\* new_names of rename_multiple_variables_in_function: a dict, here the
\* sequence of its <<old name, new name>> items in insertion order.
BatchArgs == {<<>>, <<<<"a", "b">>, <<"c", "d">>>>}

VARIABLES
    pc,                \* pc[c]: "idle", "waiting" (blocked in wait()) or "done"
    call,              \* call[c]: the operation caller c runs, with its arguments
    callback_handler,  \* callback_handler[c]: the handler c created (0: none yet)
    response,          \* response[c]: what c's wait() returned (None: not yet)
    outcome,           \* outcome[c]: what c's call ended with
    handlers,          \* every RevaCallbackHandler created so far; its index is its identity
    to_send_to_tool,   \* the shared queue of handlers waiting for the transport
    in_flight,         \* handlers the transport has sent to the backend, not yet answered
    connected,         \* whether the backend is still connected
    puts,              \* puts[c]: how many handlers the operation c runs has put on the queue
    outputs,           \* outputs[c]: the list a batch rename has collected so far
    waited,            \* the bag of handlers whose wait() has returned, once per return
    enqueued,          \* the handlers in the order they were put on the queue
    dequeued,          \* the handlers in the order the transport took them
    resolved,          \* the handlers in the order they were first resolved
    second_resolves    \* how many times a resolved handler was resolved again

vars == <<pc, call, callback_handler, response, outcome, handlers, to_send_to_tool, in_flight,
          connected, puts, outputs, waited, enqueued, dequeued, resolved, second_resolves>>

callerVars == <<pc, call, callback_handler, response, outcome, puts, outputs, waited>>
transportVars == <<in_flight, connected, dequeued, resolved, second_resolves>>

NoCall == [op |-> "none"]

Init ==
    /\ pc = [c \in Callers |-> "idle"]
    /\ call = [c \in Callers |-> NoCall]
    /\ callback_handler = [c \in Callers |-> 0]
    /\ response = [c \in Callers |-> None]
    /\ outcome = [c \in Callers |-> NoOutcome]
    /\ handlers = <<>>
    /\ to_send_to_tool = <<>>
    /\ in_flight = {}
    /\ connected = TRUE
    /\ puts = [c \in Callers |-> 0]
    /\ outputs = [c \in Callers |-> <<>>]
    /\ waited = EmptyBag
    /\ enqueued = <<>>
    /\ dequeued = <<>>
    /\ resolved = <<>>
    /\ second_resolves = 0

(***************************************************************************)
(* Argument handling of each operation, up to the request it builds.       *)
(***************************************************************************)
Prepared(message) == [ok |-> TRUE, message |-> message, error |-> NoOutcome]
Rejected(error) == [ok |-> FALSE, message |-> [kind |-> "none"], error |-> error]

\* The argument read as a decimal number instead of a base-16 one.
GetDecompilationRequestBase10(function_name_or_address) ==
    IF function_name_or_address.t # "str"
    THEN Rejected(Raised("TypeError", "int() cannot convert non-string with explicit base"))
    ELSE LET parsed == ParseInt(function_name_or_address.s, 10)
         IN  IF parsed.ok /\ parsed.value <= 0
             THEN Rejected(Raised("RevaToolException", "Address must be > 0 and in hex format"))
             ELSE IF parsed.ok
             THEN Prepared(RevaGetDecompilation(Some(parsed.value), None))
             ELSE Prepared(RevaGetDecompilation(None, Some(function_name_or_address.s)))

\* int(function_name_or_address, 16): TypeError for a non-string, ValueError
\* (taken as "this is a name") for a string that is no base-16 number.  The
\* RevaToolException for an address <= 0 is raised inside the try block and
\* is not a ValueError, so it leaves the operation.
GetDecompilationRequest(function_name_or_address) ==
    IF function_name_or_address.t # "str"
    THEN Rejected(Raised("TypeError", "int() cannot convert non-string with explicit base"))
    ELSE LET parsed  == ParseInt(function_name_or_address.s, 16)
             address == IF parsed.ok THEN Some(parsed.value) ELSE None
             name    == IF parsed.ok THEN None ELSE Some(function_name_or_address.s)
         IN  IF parsed.ok /\ parsed.value <= 0
             THEN Rejected(Raised("RevaToolException", "Address must be > 0 and in hex format"))
             ELSE IF address = None /\ name = None
             THEN Rejected(Raised("RevaToolException",
                                  "function_name_or_address must be an address or function name"))
             ELSE Prepared(RevaGetDecompilation(address, name))

\* if isinstance(x, str): x = int(x)
CoerceInt(x) == IF x.t = "str" THEN ParseInt(x.s, 10) ELSE [ok |-> TRUE, value |-> x.n]

\* The page compared with 0 as it was passed, a numeric string not converted.
GetDefinedFunctionListRequestUncoerced(page, page_size) ==
    IF page.t = "int" /\ page.n = 0
    THEN Rejected(Raised("ValueError", "page is 1 indexed, page cannot be 0"))
    ELSE Prepared(RevaGetDefinedFunctionList(CoerceInt(page).value, CoerceInt(page_size).value))

GetDefinedFunctionListRequest(page, page_size) ==
    LET p  == CoerceInt(page)
        ps == CoerceInt(page_size)
    IN  IF ~p.ok \/ ~ps.ok
        THEN Rejected(Raised("ValueError", "invalid literal for int() with base 10"))
        ELSE IF p.value = 0
        THEN Rejected(Raised("ValueError", "page is 1 indexed, page cannot be 0"))
        ELSE Prepared(RevaGetDefinedFunctionList(p.value, ps.value))

GetFunctionCountRequest == Prepared(RevaGetFunctionCount)

RenameVariableRequest(new_name, old_name, containing_function) ==
    Prepared(RevaRenameVariable([name |-> old_name], new_name, containing_function))

GetReferencesRequest(address_or_symbol) == Prepared(RevaGetReferences(address_or_symbol))

(***************************************************************************)
(* The bridge, as the facade uses it.                                      *)
(***************************************************************************)
\* RevaCallbackHandler(self.project, message): a fresh handler, not resolved.
RevaCallbackHandler(message, owner) ==
    [message |-> message, response |-> None, owner |-> owner, first |-> None]

\* A queue that adds at the head: last in, first out.
EnqueueAtHead(queue, h) == <<h>> \o queue

\* The queue to_send_to_tool keeps insertion order: put() adds at the tail.
Enqueue(queue, h) == Append(queue, h)

\* An operation that puts its handler on the queue twice.
QueuePutTwice(queue, h) == Enqueue(Enqueue(queue, h), h)

\* to_send_to_tool.put(callback_handler): the operation puts its handler once.
QueuePut(queue, h) == Enqueue(queue, h)

\* Every caller waiting on one shared handler instead of its own.
WaitsOnFirstHandler(c) == 1

\* The handler whose wait() caller c blocks in: the one it created itself.
WaitsOn(c) == callback_handler[c]

\* callback_handler.wait() may return: the handler has a response.
CanReturn(c) ==
    /\ pc[c] = "waiting"
    /\ WaitsOn(c) \in 1..Len(handlers)
    /\ handlers[WaitsOn(c)].response # None

\* The response wait() returns to caller c.
WaitResult(c) == handlers[WaitsOn(c)].response[1]

\* The start of an operation: it raises on bad arguments, or it creates a
\* handler for the request, puts it on the queue and blocks in wait().
Start(c, the_call, request) ==
    /\ call' = [call EXCEPT ![c] = the_call]
    /\ IF request.ok
       THEN LET h == Len(handlers) + 1
            IN  /\ handlers' = Append(handlers, RevaCallbackHandler(request.message, c))
                /\ callback_handler' = [callback_handler EXCEPT ![c] = h]
                /\ to_send_to_tool' = QueuePut(to_send_to_tool, h)
                /\ enqueued' = Append(enqueued, h)
                /\ puts' = [puts EXCEPT ![c] = @ + 1]
                /\ pc' = [pc EXCEPT ![c] = "waiting"]
                /\ UNCHANGED outcome
       ELSE /\ outcome' = [outcome EXCEPT ![c] = request.error]
            /\ pc' = [pc EXCEPT ![c] = "done"]
            /\ UNCHANGED <<handlers, callback_handler, to_send_to_tool, enqueued, puts>>
    /\ UNCHANGED <<response, outputs, waited, transportVars>>

\* The end of an operation: wait() has returned and the operation raises or returns.
Finish(c, result) ==
    /\ CanReturn(c)
    /\ response' = [response EXCEPT ![c] = Some(WaitResult(c))]
    /\ outcome' = [outcome EXCEPT ![c] = result]
    /\ pc' = [pc EXCEPT ![c] = "done"]
    /\ waited' = waited (+) SetToBag({WaitsOn(c)})
    /\ UNCHANGED <<call, callback_handler, handlers, to_send_to_tool, puts, outputs, enqueued>>
    /\ UNCHANGED transportVars

\* A call that puts the handler it already has on the queue again, with a
\* new request in it, instead of creating one.
SubmitSameHandler(c, message) ==
    LET h == callback_handler[c]
    IN  /\ handlers' = [handlers EXCEPT ![h].message = message]
        /\ callback_handler' = [callback_handler EXCEPT ![c] = h]
        /\ to_send_to_tool' = QueuePut(to_send_to_tool, h)
        /\ enqueued' = Append(enqueued, h)
        /\ puts' = [puts EXCEPT ![c] = 1]

\* A further call of an operation by a caller that has made one before: it
\* creates a handler of its own for the request and puts it on the queue.
Submit(c, message) ==
    LET h == Len(handlers) + 1
    IN  /\ handlers' = Append(handlers, RevaCallbackHandler(message, c))
        /\ callback_handler' = [callback_handler EXCEPT ![c] = h]
        /\ to_send_to_tool' = QueuePut(to_send_to_tool, h)
        /\ enqueued' = Append(enqueued, h)
        /\ puts' = [puts EXCEPT ![c] = 1]

(***************************************************************************)
(* What each operation makes of the response wait() returned.              *)
(***************************************************************************)
GetDecompilationResult(resp) ==
    IF Truthy(resp.error_message)
    THEN Raised("RevaToolException", resp.error_message[1])
    ELSE IF resp.kind # "RevaGetDecompilationResponse"
    THEN Raised("ValueError", "Expected a RevaGetDecompilationResponse")
    ELSE Returned([function |-> resp.payload.function,
                   function_signature |-> resp.payload.function_signature,
                   address |-> Hex(resp.payload.address),
                   decompilation |-> resp.payload.decompilation,
                   variables |-> resp.payload.variables])

GetDefinedFunctionListResult(resp) ==
    IF Truthy(resp.error_message)
    THEN Raised("RevaToolException", resp.error_message[1])
    ELSE IF resp.kind # "RevaGetDefinedFunctionListResponse"
    THEN Raised("RevaToolException", "Expected a RevaGetDefinedFunctionListResponse")
    ELSE Returned(resp.payload.function_list)

GetFunctionCountResult(resp) ==
    IF Truthy(resp.error_message)
    THEN Raised("RevaToolException", resp.error_message[1])
    ELSE IF resp.kind # "RevaGetFunctionCountResponse"
    THEN Raised("ValueError", "Expected a RevaGetFunctionCountResponse")
    ELSE Returned(resp.payload.function_count)

\* No check of the kind of the response: any response without an error is a success.
\* A rename that does not look at the error description of the response.
RenameVariableResultIgnoresError(resp, new_name, old_name, containing_function) ==
    Returned("Renamed " \o old_name \o " to " \o new_name \o " in " \o containing_function)

RenameVariableResult(resp, new_name, old_name, containing_function) ==
    IF Truthy(resp.error_message)
    THEN Raised("RevaToolException", resp.error_message[1])
    ELSE Returned("Renamed " \o old_name \o " to " \o new_name \o " in " \o containing_function)

\* The kind is checked first: a bug that hides the backend's error text.
GetReferencesResultKindFirst(resp) ==
    IF resp.kind # "RevaGetReferencesResponse"
    THEN Raised("AssertionError", "Expected a RevaGetReferencesResponse")
    ELSE IF Truthy(resp.error_message)
    THEN Raised("RevaToolException", resp.error_message[1])
    ELSE Returned([references_to |-> resp.payload.references_to,
                   references_from |-> resp.payload.references_from])

GetReferencesResult(resp) ==
    IF Truthy(resp.error_message)
    THEN Raised("RevaToolException", resp.error_message[1])
    ELSE IF resp.kind # "RevaGetReferencesResponse"
    THEN Raised("AssertionError", "Expected a RevaGetReferencesResponse")
    ELSE Returned([references_to |-> resp.payload.references_to,
                   references_from |-> resp.payload.references_from])

(***************************************************************************)
(* The facade operations: the step up to wait(), and the step after it.    *)
(***************************************************************************)
get_decompilation_for_function(c, function_name_or_address) ==
    /\ pc[c] = "idle"
    /\ Start(c, [op |-> "get_decompilation_for_function",
              function_name_or_address |-> function_name_or_address],
          GetDecompilationRequest(function_name_or_address))

get_decompilation_for_function_returns(c) ==
    /\ call[c].op = "get_decompilation_for_function"
    /\ Finish(c, GetDecompilationResult(WaitResult(c)))

get_defined_function_list_paginated(c, page, page_size) ==
    /\ pc[c] = "idle"
    /\ Start(c, [op |-> "get_defined_function_list_paginated",
              page |-> page, page_size |-> page_size],
          GetDefinedFunctionListRequest(page, page_size))

get_defined_function_list_paginated_returns(c) ==
    /\ call[c].op = "get_defined_function_list_paginated"
    /\ Finish(c, GetDefinedFunctionListResult(WaitResult(c)))

get_defined_function_count(c) ==
    /\ pc[c] = "idle"
    /\ Start(c, [op |-> "get_defined_function_count"], GetFunctionCountRequest)

get_defined_function_count_returns(c) ==
    /\ call[c].op = "get_defined_function_count"
    /\ Finish(c, GetFunctionCountResult(WaitResult(c)))

rename_variable_in_function(c, new_name, old_name, containing_function) ==
    /\ pc[c] = "idle"
    /\ Start(c, [op |-> "rename_variable_in_function", new_name |-> new_name,
              old_name |-> old_name, containing_function |-> containing_function],
          RenameVariableRequest(new_name, old_name, containing_function))

rename_variable_in_function_returns(c) ==
    /\ call[c].op = "rename_variable_in_function"
    /\ Finish(c, RenameVariableResult(WaitResult(c), call[c].new_name, call[c].old_name,
                                call[c].containing_function))

\* The items of the dict taken last first.
EntryReversed(new_names, i) == new_names[Len(new_names) + 1 - i]

\* new_names.items(): the i-th <<old_name, new_name>> the loop takes.
Entry(new_names, i) == new_names[i]

\* The request of the i-th loop iteration:
\* self.rename_variable_in_function(new_name, old_name, containing_function).
EntryRequest(new_names, i, containing_function) ==
    RenameVariableRequest(Entry(new_names, i)[2], Entry(new_names, i)[1], containing_function)

\* What the i-th iteration's call makes of the response wait() returned.
EntryResult(c) ==
    LET i == Len(outputs[c]) + 1
    IN  RenameVariableResult(WaitResult(c), Entry(call[c].new_names, i)[2],
                             Entry(call[c].new_names, i)[1], call[c].containing_function)

BatchCall(new_names, containing_function) ==
    [op |-> "rename_multiple_variables_in_function", new_names |-> new_names,
     containing_function |-> containing_function]

\* A batch that submits the requests of all its entries before it waits.
RECURSIVE SubmitAll(_, _, _, _, _)
SubmitAll(hs, c, new_names, i, containing_function) ==
    IF i > Len(new_names) THEN hs
    ELSE SubmitAll(Append(hs, RevaCallbackHandler(
                       RenameVariableRequest(new_names[i][2], new_names[i][1],
                                             containing_function).message, c)),
                   c, new_names, i + 1, containing_function)

rename_multiple_variables_in_function_at_once(c, new_names, containing_function) ==
    /\ pc[c] = "idle"
    /\ call' = [call EXCEPT ![c] = BatchCall(new_names, containing_function)]
    /\ handlers' = SubmitAll(handlers, c, new_names, 1, containing_function)
    /\ to_send_to_tool' = to_send_to_tool \o
                              [i \in 1..Len(new_names) |-> Len(handlers) + i]
    /\ enqueued' = enqueued \o [i \in 1..Len(new_names) |-> Len(handlers) + i]
    /\ IF new_names = <<>>
       THEN /\ outcome' = [outcome EXCEPT ![c] = Returned(<<>>)]
            /\ pc' = [pc EXCEPT ![c] = "done"]
            /\ UNCHANGED <<callback_handler, puts>>
       ELSE /\ callback_handler' = [callback_handler EXCEPT ![c] = Len(handlers) + 1]
            /\ puts' = [puts EXCEPT ![c] = 1]
            /\ pc' = [pc EXCEPT ![c] = "waiting"]
            /\ UNCHANGED outcome
    /\ UNCHANGED <<response, outputs, waited, transportVars>>

\* rename_multiple_variables_in_function up to the wait() of its first
\* entry; with no entry it returns the empty list at once.
rename_multiple_variables_in_function(c, new_names, containing_function) ==
    /\ pc[c] = "idle"
    /\ IF new_names = <<>>
       THEN /\ call' = [call EXCEPT ![c] = BatchCall(new_names, containing_function)]
            /\ outcome' = [outcome EXCEPT ![c] = Returned(<<>>)]
            /\ pc' = [pc EXCEPT ![c] = "done"]
            /\ UNCHANGED <<handlers, callback_handler, to_send_to_tool, enqueued, puts,
                           response, outputs, waited, transportVars>>
       ELSE Start(c, BatchCall(new_names, containing_function),
                  EntryRequest(new_names, 1, containing_function))

\* An entry's rename has returned its message and entries are left: the
\* message is appended to outputs and the next entry's rename is called, up
\* to its wait().
rename_multiple_variables_in_function_next(c) ==
    /\ call[c].op = "rename_multiple_variables_in_function"
    /\ CanReturn(c)
    /\ EntryResult(c).status = "returned"
    /\ Len(outputs[c]) + 1 < Len(call[c].new_names)
    /\ outputs' = [outputs EXCEPT ![c] = Append(@, EntryResult(c).value[1])]
    /\ waited' = waited (+) SetToBag({WaitsOn(c)})
    /\ response' = [response EXCEPT ![c] = None]
    /\ Submit(c, EntryRequest(call[c].new_names, Len(outputs[c]) + 2,
                              call[c].containing_function).message)
    /\ UNCHANGED <<pc, call, outcome, transportVars>>

\* The end of the batch: the exception of an entry's rename leaves the loop
\* and the function, or the last entry's message is appended and outputs is
\* returned.
rename_multiple_variables_in_function_returns(c) ==
    /\ call[c].op = "rename_multiple_variables_in_function"
    /\ CanReturn(c)
    /\ \/ /\ EntryResult(c).status = "raised"
          /\ outcome' = [outcome EXCEPT ![c] = EntryResult(c)]
          /\ UNCHANGED outputs
       \/ /\ EntryResult(c).status = "returned"
          /\ Len(outputs[c]) + 1 = Len(call[c].new_names)
          /\ outputs' = [outputs EXCEPT ![c] = Append(@, EntryResult(c).value[1])]
          /\ outcome' = [outcome EXCEPT ![c] =
                            Returned(Append(outputs[c], EntryResult(c).value[1]))]
    /\ response' = [response EXCEPT ![c] = Some(WaitResult(c))]
    /\ waited' = waited (+) SetToBag({WaitsOn(c)})
    /\ pc' = [pc EXCEPT ![c] = "done"]
    /\ UNCHANGED <<call, callback_handler, handlers, to_send_to_tool, puts, enqueued>>
    /\ UNCHANGED transportVars

get_references(c, address_or_symbol) ==
    /\ pc[c] = "idle"
    /\ Start(c, [op |-> "get_references", address_or_symbol |-> address_or_symbol],
          GetReferencesRequest(address_or_symbol))

get_references_returns(c) ==
    /\ call[c].op = "get_references"
    /\ Finish(c, GetReferencesResult(WaitResult(c)))

(***************************************************************************)
(* The transport worker and the backend.                                   *)
(***************************************************************************)
\* A response slot that every resolve() overwrites.
ResolveOverwrites(hs, h, resp) == [hs EXCEPT ![h].response = Some(resp)]

\* resolve(handler, response): the response slot is written once.
Resolve(hs, h, resp) ==
    IF hs[h].response = None THEN [hs EXCEPT ![h].response = Some(resp)] ELSE hs

\* Remembers the first response a handler was resolved with.
NoteFirst(hs, h, resp) ==
    IF hs[h].first = None THEN [hs EXCEPT ![h].first = Some(resp)] ELSE hs

\* The worker takes the handler at the head of the queue and sends its
\* request to the backend.
TransportDequeue ==
    /\ connected
    /\ to_send_to_tool # <<>>
    /\ in_flight' = in_flight \cup {Head(to_send_to_tool)}
    /\ dequeued' = Append(dequeued, Head(to_send_to_tool))
    /\ to_send_to_tool' = Tail(to_send_to_tool)
    /\ UNCHANGED <<callerVars, handlers, enqueued, connected, resolved, second_resolves>>

\* The backend answers one of the requests it holds, in any order, with a
\* response of any kind, and the worker resolves that request's handler.
TransportDeliver(h, kind, error_message) ==
    /\ connected
    /\ h \in in_flight
    /\ in_flight' = in_flight \ {h}
    /\ handlers' = NoteFirst(Resolve(handlers, h, Response(kind, error_message, h)),
                             h, Response(kind, error_message, h))
    /\ resolved' = Append(resolved, h)
    /\ UNCHANGED <<callerVars, to_send_to_tool, enqueued, connected, dequeued,
                   second_resolves>>

\* A second reply for a request that was already answered.
TransportDeliverAgain(h, kind, error_message) ==
    /\ connected
    /\ second_resolves < MaxSecondResolves
    /\ h \in 1..Len(handlers)
    /\ handlers[h].first # None
    /\ handlers' = Resolve(handlers, h, Response(kind, error_message, h))
    /\ second_resolves' = second_resolves + 1
    /\ UNCHANGED <<callerVars, to_send_to_tool, enqueued, in_flight, connected,
                   dequeued, resolved>>

\* The backend goes away.  Nothing resolves the handlers that are still
\* waiting for it.
Disconnect ==
    /\ connected
    /\ connected' = FALSE
    /\ UNCHANGED <<callerVars, handlers, to_send_to_tool, enqueued, in_flight,
                   dequeued, resolved, second_resolves>>

Delivers ==
    \E h \in in_flight, e \in ErrorMessages :
        \E k \in ReplyKinds(handlers[h].message.kind) : TransportDeliver(h, k, e)

DeliversAgain ==
    \E h \in 1..Len(handlers), e \in ErrorMessages :
        \E k \in ReplyKinds(handlers[h].message.kind) : TransportDeliverAgain(h, k, e)

Next ==
    \/ \E c \in Callers, a \in DecompilationArgs : get_decompilation_for_function(c, a)
    \/ \E c \in Callers : get_decompilation_for_function_returns(c)
    \/ \E c \in Callers, p \in PageArgs, s \in PageSizeArgs :
          get_defined_function_list_paginated(c, p, s)
    \/ \E c \in Callers : get_defined_function_list_paginated_returns(c)
    \/ \E c \in Callers : get_defined_function_count(c)
    \/ \E c \in Callers : get_defined_function_count_returns(c)
    \/ \E c \in Callers, a \in RenameArgs : rename_variable_in_function(c, a[1], a[2], a[3])
    \/ \E c \in Callers : rename_variable_in_function_returns(c)
    \/ \E c \in Callers, m \in BatchArgs : rename_multiple_variables_in_function(c, m, "F")
    \/ \E c \in Callers : rename_multiple_variables_in_function_next(c)
    \/ \E c \in Callers : rename_multiple_variables_in_function_returns(c)
    \/ \E c \in Callers, a \in ReferenceArgs : get_references(c, a)
    \/ \E c \in Callers : get_references_returns(c)
    \/ TransportDequeue
    \/ Delivers
    \/ DeliversAgain
    \/ Disconnect

Spec == Init /\ [][Next]_vars

\* Every thread keeps running: the worker takes what is queued, a connected
\* backend answers what it holds, and a caller whose wait() can return goes on.
Returns(c) ==
    \/ get_decompilation_for_function_returns(c)
    \/ get_defined_function_list_paginated_returns(c)
    \/ get_defined_function_count_returns(c)
    \/ rename_variable_in_function_returns(c)
    \/ rename_multiple_variables_in_function_next(c)
    \/ rename_multiple_variables_in_function_returns(c)
    \/ get_references_returns(c)

FairSpec ==
    /\ Spec
    /\ WF_vars(TransportDequeue)
    /\ WF_vars(Delivers)
    /\ \A c \in Callers : WF_vars(Returns(c))

(***************************************************************************)
(* Vocabulary of the properties.                                           *)
(***************************************************************************)
Done(c) == pc[c] = "done"
\* Caller c's wait() has returned a response.
Answered(c) == response[c] # None
HandlerIds == 1..Len(handlers)
InQueue(h) == \E i \in 1..Len(to_send_to_tool) : to_send_to_tool[i] = h
TimesInQueue(h) == Cardinality({i \in 1..Len(to_send_to_tool) : to_send_to_tool[i] = h})
\* The kind of the request caller c submitted.
RequestKind(c) == handlers[callback_handler[c]].message.kind
HasError(resp) == Truthy(resp.error_message)

(***************************************************************************)
(* C1.  Every request a facade operation submits eventually produces       *)
(* exactly one outcome for its caller: a response of the matching kind, or *)
(* an error.  Checked under FairSpec, as stated.                           *)
(***************************************************************************)
C1_EveryRequestGetsItsOutcome ==
    \A c \in Callers :
        (pc[c] = "waiting") ~>
            (/\ Done(c)
             /\ Answered(c)
             /\ \/ outcome[c].status = "raised"
                \/ /\ outcome[c].status = "returned"
                   /\ response[c][1].kind = MatchingKind(RequestKind(c)))

(***************************************************************************)
(* C2.  With callers submitting concurrently and replies arriving in any   *)
(* order, the response a caller's wait() returns is one the backend        *)
(* produced for that caller's own request, never for another caller's.     *)
(***************************************************************************)
C2_NoCrossDelivery ==
    \A c \in Callers :
        Answered(c) =>
            /\ response[c][1].answers \in HandlerIds
            /\ handlers[response[c][1].answers].owner = c
            /\ response[c][1].answers = callback_handler[c]

\* Two requests were resolved in the reverse of the order they were
\* submitted in, and both callers have their response.
C2_ResolvedInReverse ==
    /\ Len(enqueued) = 2
    /\ resolved = <<enqueued[2], enqueued[1]>>
    /\ \A c \in {handlers[enqueued[1]].owner, handlers[enqueued[2]].owner} : Answered(c)

(***************************************************************************)
(* C3.  A caller never stays suspended in wait(): when the transport never *)
(* resolves its request, wait() fails with a timeout or disconnection      *)
(* error.  Stated on the states where nothing can happen any more: none of *)
(* them has a caller still in wait().                                      *)
(***************************************************************************)
C3_WaitNeverHangs == (~ENABLED Next) => \A c \in Callers : pc[c] # "waiting"

(***************************************************************************)
(* C4.  The response slot of a handler is written once: resolving a        *)
(* resolved handler again changes nothing, and the response the waiter     *)
(* gets is the first one delivered.                                        *)
(***************************************************************************)
C4_WriteOnce ==
    /\ \A h \in HandlerIds : handlers[h].first # None => handlers[h].response = handlers[h].first
    /\ \A c \in Callers : Answered(c) => response[c] = handlers[callback_handler[c]].first

\* A resolved handler was resolved a second time, and its waiter has its response.
C4_ResolvedTwice ==
    /\ second_resolves > 0
    /\ \E c \in Callers : Answered(c) /\ Done(c)

(***************************************************************************)
(* C5.  A handler is in the queue at most once, and a handler that has its *)
(* response is no longer in the queue.                                     *)
(***************************************************************************)
C5_QueuedOnceAndRemovedBeforeResponse ==
    \A h \in HandlerIds :
        /\ TimesInQueue(h) <= 1
        /\ handlers[h].response # None => ~InQueue(h)

\* One handler has its response while another is still queued.
C5_ResponseWhileOthersQueued ==
    /\ \E h \in HandlerIds : handlers[h].response # None
    /\ to_send_to_tool # <<>>

(***************************************************************************)
(* C6.  The transport takes the handlers in the order they were put on the *)
(* queue: what it has taken so far is a prefix of what was put.            *)
(***************************************************************************)
C6_DequeuedInSubmissionOrder ==
    /\ Len(dequeued) <= Len(enqueued)
    /\ \A i \in 1..Len(dequeued) : dequeued[i] = enqueued[i]

\* Two handlers were taken, and the first of them was not the first caller's:
\* the callers submitted in the other order.
C6_TwoDequeued ==
    /\ Len(dequeued) >= 2
    /\ handlers[dequeued[1]].owner # 1
    /\ dequeued[1] # dequeued[2]

(***************************************************************************)
(* C7.  When the backend disconnects, every request outstanding at that    *)
(* moment is resolved with a disconnection error.  Checked under FairSpec. *)
(***************************************************************************)
C7_DisconnectResolvesOutstanding ==
    \A h \in 1..NumCallers :
        (~connected /\ h \in HandlerIds /\ handlers[h].response = None) ~>
            (h \in HandlerIds /\ handlers[h].response # None
                /\ HasError(handlers[h].response[1]))

(***************************************************************************)
(* C8.  When the response carries a non-empty error description, the       *)
(* operation raises a RevaToolException whose message is the backend's     *)
(* text, whatever else the response holds; it returns no payload and it    *)
(* has submitted one request, no more.                                     *)
(***************************************************************************)
C8_BackendErrorSurfaced ==
    \A c \in Callers :
        (Done(c) /\ Answered(c) /\ HasError(response[c][1])) =>
            /\ outcome[c] = Raised("RevaToolException", response[c][1].error_message[1])
            /\ outcome[c].value = None
            /\ puts[c] = 1

\* Each of the five operations has ended on a response that carries an error;
\* one of them a response of the wrong kind as well.
C8_ErrorOnWrongKind ==
    \E c \in Callers :
        /\ Done(c) /\ Answered(c) /\ HasError(response[c][1])
        /\ call[c].op = "get_references"
        /\ response[c][1].kind # MatchingKind(RequestKind(c))

(***************************************************************************)
(* C9.  For every operation, a response without an error whose kind is not *)
(* the kind of the request makes the call fail.                            *)
(***************************************************************************)
C9_MismatchedKindFails ==
    \A c \in Callers :
        (/\ Done(c) /\ Answered(c)
         /\ ~HasError(response[c][1])
         /\ response[c][1].kind # MatchingKind(RequestKind(c))) =>
            outcome[c].status = "raised"

(***************************************************************************)
(* C10.  Invalid arguments are detected before submission: a malformed     *)
(* function identifier, a page number of zero, or an empty required string *)
(* makes the operation fail without putting a handler on the queue.        *)
(***************************************************************************)
\* The arguments the claim calls invalid.
InvalidArguments(the_call) ==
    CASE the_call.op = "get_decompilation_for_function" ->
            \/ the_call.function_name_or_address.t # "str"
            \/ the_call.function_name_or_address.s = <<>>
            \/ /\ ParseInt(the_call.function_name_or_address.s, 16).ok
               /\ ParseInt(the_call.function_name_or_address.s, 16).value <= 0
      [] the_call.op = "get_defined_function_list_paginated" ->
            /\ CoerceInt(the_call.page).ok
            /\ CoerceInt(the_call.page).value = 0
      [] the_call.op = "rename_variable_in_function" ->
            "" \in {the_call.new_name, the_call.old_name, the_call.containing_function}
      [] the_call.op = "get_references" -> the_call.address_or_symbol = ""
      [] OTHER -> FALSE

\* C10: a call with invalid arguments has ended with an error and has put
\* nothing on the queue.
C10_InvalidArgumentsNeverSubmitted ==
    \A c \in Callers :
        (pc[c] # "idle" /\ InvalidArguments(call[c])) =>
            /\ puts[c] = 0
            /\ Done(c)
            /\ outcome[c].status = "raised"

(***************************************************************************)
(* C11.  get_defined_function_list_paginated with page 0, given as the     *)
(* integer 0 or as the string "0", fails with a ValueError for every page  *)
(* size: nothing is put on the queue and no function list is returned.     *)
(***************************************************************************)
C11_PageZeroAlwaysFails ==
    \A c \in Callers :
        (/\ call[c].op = "get_defined_function_list_paginated"
         /\ call[c].page \in {IntArg(0), StrArg(<<"0">>)}) =>
            /\ Done(c)
            /\ outcome[c].status = "raised"
            /\ outcome[c].exc = "ValueError"
            /\ outcome[c].value = None
            /\ puts[c] = 0
            /\ callback_handler[c] = 0

\* A call with page "0" and a page size given as a string has ended.
C11_PageZeroAsString ==
    \E c \in Callers :
        /\ call[c].op = "get_defined_function_list_paginated"
        /\ call[c].page = StrArg(<<"0">>)
        /\ call[c].page_size = StrArg(<<"5">>)
        /\ Done(c)

(***************************************************************************)
(* C15.  Every RevaGetDecompilation request put on the queue has exactly   *)
(* one of address and function set: an address is an integer > 0, a        *)
(* function name is a non-empty string.                                    *)
(***************************************************************************)
C15_ExactlyOneIdentifier ==
    \A h \in HandlerIds :
        handlers[h].message.kind = "RevaGetDecompilation" =>
            LET m == handlers[h].message
            IN  /\ (m.address = None) # (m.function = None)
                /\ m.address # None => m.address[1] > 0
                /\ m.function # None => m.function[1] # <<>>

(***************************************************************************)
(* C16.  For every operation the error raised for a response of the wrong  *)
(* kind is of another kind than the RevaToolException raised for a         *)
(* backend error.                                                          *)
(***************************************************************************)
C16_MismatchDistinguishable ==
    \A c \in Callers :
        (/\ Done(c) /\ Answered(c)
         /\ ~HasError(response[c][1])
         /\ response[c][1].kind # MatchingKind(RequestKind(c))) =>
            /\ outcome[c].status = "raised"
            /\ outcome[c].exc # "RevaToolException"

(***************************************************************************)
(* C19.  get_decompilation_for_function classifies its string argument by  *)
(* base-16 parsing alone: the request carries an address exactly when the  *)
(* argument is a base-16 number, and the argument as the function name     *)
(* otherwise; a number <= 0 is rejected and nothing is put on the queue.   *)
(***************************************************************************)
HexChars == {"0", "1", "2", "3", "4", "5", "6", "7", "8", "9", "a", "b", "c", "d", "e", "f"}

\* chars is a base-16 number: sign and 0x prefix optional, then hex digits only.
IsBase16Number(chars) ==
    LET unsigned == IF chars # <<>> /\ chars[1] \in {"-", "+"}
                    THEN SubSeq(chars, 2, Len(chars)) ELSE chars
        digits   == IF Len(unsigned) >= 2 /\ unsigned[1] = "0" /\ unsigned[2] \in {"x", "X"}
                    THEN SubSeq(unsigned, 3, Len(unsigned)) ELSE unsigned
    IN  Len(digits) > 0 /\ \A i \in 1..Len(digits) : digits[i] \in HexChars

C19_ClassifiedByBase16Parsing ==
    \A c \in Callers :
        (/\ call[c].op = "get_decompilation_for_function"
         /\ call[c].function_name_or_address.t = "str") =>
            LET arg == call[c].function_name_or_address.s
            IN  IF IsBase16Number(arg) /\ ParseInt(arg, 16).value <= 0
                THEN /\ Done(c) /\ outcome[c].status = "raised"
                     /\ puts[c] = 0 /\ callback_handler[c] = 0
                ELSE /\ puts[c] = 1
                     /\ callback_handler[c] \in HandlerIds
                     /\ LET m == handlers[callback_handler[c]].message
                        IN  /\ m.kind = "RevaGetDecompilation"
                            /\ (m.address # None) <=> IsBase16Number(arg)
                            /\ IsBase16Number(arg) =>
                                  (m.address = Some(ParseInt(arg, 16).value) /\ m.function = None)
                            /\ ~IsBase16Number(arg) => m.function = Some(arg)

\* A name made of hex digits only was sent as the address 0xad.
C19_HexDigitNameSentAsAddress ==
    \E c \in Callers :
        /\ call[c].op = "get_decompilation_for_function"
        /\ call[c].function_name_or_address = StrArg(<<"a", "d">>)
        /\ callback_handler[c] \in HandlerIds
        /\ handlers[callback_handler[c]].message.address = Some(173)
        /\ handlers[callback_handler[c]].message.function = None

(***************************************************************************)
(* Vocabulary of the batch properties.                                     *)
(***************************************************************************)
IsBatch(c) == call[c].op = "rename_multiple_variables_in_function"

\* The handlers caller c created, in the order it created them.
OwnedHandlers(c) == SelectSeq([h \in HandlerIds |-> h], LAMBDA h : handlers[h].owner = c)

\* The handlers caller c put on the queue, in the order it put them.
EnqueuedBy(c) == SelectSeq(enqueued, LAMBDA h : handlers[h].owner = c)

\* The rename request of the i-th entry of a batch call.
RenameOfEntry(the_call, i) ==
    [kind |-> "RevaRenameVariable", variable |-> [name |-> the_call.new_names[i][1]],
     new_name |-> the_call.new_names[i][2], function_name |-> the_call.containing_function]

\* The confirmation message of the i-th entry of a batch call.
MessageOfEntry(the_call, i) ==
    "Renamed " \o the_call.new_names[i][1] \o " to " \o the_call.new_names[i][2]
        \o " in " \o the_call.containing_function

Failed(h) == handlers[h].response # None /\ HasError(handlers[h].response[1])

Consumed(h) == BagIn(h, waited)

(***************************************************************************)
(* C12.  A batch of n entries none of whose renames the backend answered   *)
(* with an error returns n messages, the i-th "Renamed <old_i> to <new_i>  *)
(* in F" for the i-th entry of the mapping, and it has put n rename        *)
(* requests on the queue, the i-th the one of the i-th entry.              *)
(***************************************************************************)
C12_AllSucceedInMappingOrder ==
    \A c \in Callers :
        (/\ IsBatch(c) /\ Done(c)
         /\ \A i \in 1..Len(OwnedHandlers(c)) : ~Failed(OwnedHandlers(c)[i])) =>
            LET n == Len(call[c].new_names)
            IN  /\ outcome[c].status = "returned"
                /\ Len(outcome[c].value[1]) = n
                /\ \A i \in 1..n : outcome[c].value[1][i] = MessageOfEntry(call[c], i)
                /\ Len(OwnedHandlers(c)) = n
                /\ EnqueuedBy(c) = OwnedHandlers(c)
                /\ \A i \in 1..n :
                      handlers[EnqueuedBy(c)[i]].message = RenameOfEntry(call[c], i)

\* The batch {a -> b, c -> d} in F has returned its two messages.
C12_TwoRenamed ==
    \E c \in Callers :
        /\ IsBatch(c) /\ Done(c)
        /\ Len(call[c].new_names) = 2
        /\ outcome[c] = Returned(<<"Renamed a to b in F", "Renamed c to d in F">>)
        /\ Len(EnqueuedBy(c)) = 2

(***************************************************************************)
(* C13.  A batch stops at its first failing rename: the request of a       *)
(* failed entry is the last one the batch puts on the queue, the batch     *)
(* ends with that entry's error, and every request it has put is the       *)
(* rename of its entry: nothing takes back the renames of the entries      *)
(* before, whose messages are all it has collected.                        *)
(***************************************************************************)
C13_AbortsOnFirstFailure ==
    \A c \in Callers :
        IsBatch(c) =>
            LET own == OwnedHandlers(c)
            IN  /\ Len(own) <= Len(call[c].new_names)
                /\ \A i \in 1..Len(own) :
                      /\ handlers[own[i]].message = RenameOfEntry(call[c], i)
                      /\ Failed(own[i]) => i = Len(own)
                /\ (Done(c) /\ own # <<>> /\ Failed(own[Len(own)])) =>
                      /\ outcome[c] = Raised("RevaToolException",
                                             handlers[own[Len(own)]].response[1].error_message[1])
                      /\ Len(outputs[c]) = Len(own) - 1
                      /\ \A i \in 1..Len(outputs[c]) : outputs[c][i] = MessageOfEntry(call[c], i)

\* A batch of two entries has ended with the error of its first entry; the
\* second entry was never requested.
C13_FailedAtFirstEntry ==
    \E c \in Callers :
        /\ IsBatch(c) /\ Done(c)
        /\ Len(call[c].new_names) = 2
        /\ Len(OwnedHandlers(c)) = 1
        /\ Failed(OwnedHandlers(c)[1])
        /\ outcome[c].status = "raised"

(***************************************************************************)
(* C14.  A batch that fails after some of its entries succeeded delivers   *)
(* to the caller the messages of those entries together with the error.    *)
(***************************************************************************)
C14_PartialResultsDelivered ==
    \A c \in Callers :
        (IsBatch(c) /\ Done(c) /\ outcome[c].status = "raised" /\ outputs[c] # <<>>) =>
            outcome[c].value = Some(outputs[c])

(***************************************************************************)
(* C17.  A batch has at most one request outstanding: at most one of its   *)
(* handlers is queued, with the backend or not yet returned from wait(),   *)
(* and when the request of entry i+1 is put on the queue the caller has    *)
(* the response of entry i and has collected its message.                  *)
(***************************************************************************)
C17_OneOutstandingPerBatch ==
    \A c \in Callers :
        IsBatch(c) =>
            LET own == OwnedHandlers(c)
            IN  /\ Cardinality({i \in 1..Len(own) : ~Consumed(own[i])}) <= 1
                /\ Cardinality({i \in 1..Len(own) :
                                   InQueue(own[i]) \/ own[i] \in in_flight}) <= 1
                /\ \A i \in 1..(Len(own) - 1) :
                      /\ handlers[own[i]].response # None
                      /\ Consumed(own[i])
                      /\ ~InQueue(own[i]) /\ own[i] \notin in_flight
                      /\ Len(outputs[c]) >= i

\* The request of the second entry is in the queue; the first entry's
\* response has been received.
C17_SecondEntryQueued ==
    \E c \in Callers :
        /\ IsBatch(c) /\ pc[c] = "waiting"
        /\ Len(OwnedHandlers(c)) = 2
        /\ InQueue(OwnedHandlers(c)[2])
        /\ Consumed(OwnedHandlers(c)[1])

(***************************************************************************)
(* C18.  A handler is never used twice: each one was put on the queue      *)
(* once, by the call that created it; its wait() has returned once or its  *)
(* owner is blocked in it, never both; and once its wait() has returned it *)
(* is neither queued nor with the backend nor waited on again.  A batch    *)
(* has one handler for each entry it has attempted.                        *)
(***************************************************************************)
C18_HandlerNeverReused ==
    /\ \A h \in HandlerIds :
          /\ Cardinality({i \in 1..Len(enqueued) : enqueued[i] = h}) = 1
          /\ CopiesIn(h, waited) <= 1
          /\ Consumed(h) # (/\ pc[handlers[h].owner] = "waiting"
                            /\ callback_handler[handlers[h].owner] = h)
          /\ Consumed(h) => (~InQueue(h) /\ h \notin in_flight)
    /\ \A c \in Callers :
          /\ ~IsBatch(c) => Len(OwnedHandlers(c)) = puts[c]
          /\ IsBatch(c) =>
                Len(OwnedHandlers(c)) =
                    IF pc[c] = "waiting" \/ outcome[c].status = "raised"
                    THEN Len(outputs[c]) + 1 ELSE Len(outputs[c])

\* A batch has ended after two entries, each with a handler of its own whose
\* wait() has returned, while another caller has had its own handler.
C18_TwoHandlersForTwoEntries ==
    \E c \in Callers :
        /\ IsBatch(c) /\ Done(c)
        /\ Len(OwnedHandlers(c)) = 2
        /\ OwnedHandlers(c)[1] # OwnedHandlers(c)[2]
        /\ \A i \in 1..2 : Consumed(OwnedHandlers(c)[i])
        /\ \E d \in Callers \ {c} : Len(OwnedHandlers(d)) = 1 /\ Done(d)

=============================================================================
